---- MODULE Spec2Model ----
(***************************************************************************)
(* Model of excel-to-word-sharepoint: the pipeline of main.py (download,   *)
(* row loop, existence check, fill, upload, scheduler) and the templating  *)
(* engine create_word_from_template of sharepoint_utils.py.                *)
(*                                                                         *)
(* A Python str is a sequence of characters; a character is a one-letter   *)
(* TLA+ string ("NUL" stands for U+0000, a character lxml refuses to       *)
(* store in an XML text node; "e_acute" and "E_acute" stand for U+00E9 and *)
(* U+00C9, "BACKTICK" for U+0060).                                         *)
(***************************************************************************)
EXTENDS Integers, Sequences, FiniteSets, TLC

VARIABLES
    pc,               \* position of the single thread of control
    caller,           \* who called create_word_from_template: "test" or "main"
    data_row,         \* the pd.Series given to the fill: [cols, vals]
    templateFile,     \* content of the template file on disk, NoFile if absent
    output_path,      \* path of the fill's output, relative to local_dir
    localDirs,        \* local directories that exist (paths relative to local_dir)
    localFiles,       \* local output files that exist
    outFile,          \* the document the fill in progress wrote with doc.save
    template,         \* the document as loaded (kept to compare against)
    doc,              \* the in-memory document being filled
    normalized_keys,  \* dict: normalized column name -> original column name
    sdtIdx,           \* next content control of the form-field pass
    scanPos,          \* next run (position in scan order) of the placeholder pass
    keyIdx,           \* column of process_run's for loop
    pass1,            \* form-field pass: "pending", "ok", "aborted"
    pass2,            \* placeholder pass: "pending", "ok", "aborted"
    lastRepl,         \* per run: column index of the last replacement made in it
    fsAtCall,         \* the local file system when the fill was called
    result_path,      \* return value of the fill: "pending", "None", "path"
    sheet,            \* rows of the spreadsheet (df)
    rowIdx,           \* index of the row of the for loop of main
    passNo,           \* number of pipeline runs started
    clock,            \* wall clock, in seconds
    remote,           \* file names present in the remote folder
    word_filename,    \* name computed for the current row
    rowLog,           \* per row of the current run: what main did for it
    uploadedBefore,   \* history: per row, an upload of an earlier run returned True
    cmdLog,           \* remote commands issued by the current upload call
    mainResult,       \* return value of main: "pending", "True", "False"
    fn,               \* the helper called on its own: "none", "normalize_string", "format_date"
    arg,              \* its argument
    ret               \* its return value

vars == <<pc, caller, data_row, templateFile, output_path, localDirs, localFiles,
          outFile, template, doc, normalized_keys, sdtIdx, scanPos, keyIdx,
          pass1, pass2, lastRepl, fsAtCall, result_path, sheet, rowIdx, passNo, clock,
          remote, word_filename, rowLog, uploadedBefore, cmdLog, mainResult,
          fn, arg, ret>>

fillVars == <<data_row, templateFile, output_path, localDirs, localFiles,
              outFile, template, doc, normalized_keys, sdtIdx, scanPos, keyIdx,
              pass1, pass2, lastRepl, fsAtCall, result_path>>

mainVars == <<sheet, rowIdx, passNo, clock, remote, word_filename, rowLog,
              uploadedBefore, cmdLog, mainResult>>

pureVars == <<fn, arg, ret>>

(***************************************************************************)
(* Bounds of the model.                                                    *)
(***************************************************************************)
MaxMarkers == 2
MaxSheetRows == 2
MaxPasses == 2

(***************************************************************************)
(* Characters and strings.                                                 *)
(***************************************************************************)
Digits == {"0", "1", "2", "3", "4", "5", "6", "7", "8", "9"}

\* string.punctuation
Punctuation ==
    {"!", "\"", "#", "$", "%", "&", "'", "(", ")", "*", "+", ",", "-", ".",
     "/", ":", ";", "<", "=", ">", "?", "@", "[", "\\", "]", "^", "_", "BACKTICK",
     "{", "|", "}", "~"}

\* the characters str.split() and the regex class \s treat as white space
Whitespace == {" ", "\t", "\n"}

\* characters lxml refuses in a text node (NULL bytes, control characters)
XmlIllegal == {"NUL"}

\* str.lower(), on the letters the model uses
Lower(c) ==
    CASE c = "A" -> "a"
      [] c = "B" -> "b"
      [] c = "C" -> "c"
      [] c = "E" -> "e"
      [] c = "U" -> "u"
      [] c = "X" -> "x"
      [] c = "E_acute" -> "e_acute"
      [] OTHER -> c

\* unicodedata.normalize('NFKD', c).encode('ASCII', 'ignore').decode('ASCII'):
\* an accented letter decomposes to its base letter and a combining mark, the
\* mark and every other non-ASCII character are dropped.
AsciiFold(c) ==
    CASE c = "e_acute" -> <<"e">>
      [] c = "E_acute" -> <<"E">>
      [] c = "NUL" -> <<"NUL">>
      [] OTHER -> <<c>>

RECURSIVE FlatMap(_, _)
FlatMap(s, i) ==
    IF i > Len(s) THEN <<>> ELSE AsciiFold(s[i]) \o FlatMap(s, i + 1)

MapLower(s) == [i \in 1..Len(s) |-> Lower(s[i])]

\* for char in string.punctuation: text = text.replace(char, ' ')
PunctToSpace(s) == [i \in 1..Len(s) |-> IF s[i] \in Punctuation THEN " " ELSE s[i]]

\* ' '.join(text.split()): words separated by one space, no space at either end
RECURSIVE JoinSplit(_, _, _)
JoinSplit(s, i, acc) ==
    IF i > Len(s) THEN acc
    ELSE IF s[i] \in Whitespace THEN JoinSplit(s, i + 1, acc)
    ELSE IF i > 1 /\ s[i - 1] \in Whitespace /\ acc # <<>>
         THEN JoinSplit(s, i + 1, acc \o <<" ", s[i]>>)
         ELSE JoinSplit(s, i + 1, Append(acc, s[i]))

\* normalize_string, for a str argument
normalize_string(text) ==
    JoinSplit(PunctToSpace(MapLower(FlatMap(text, 1))), 1, <<>>)

\* first index at which pat occurs in text, 0 if it does not (pat in text)
FindFirst(text, pat) ==
    LET hits == {i \in 1..(Len(text) - Len(pat) + 1) :
                    SubSeq(text, i, i + Len(pat) - 1) = pat}
    IN  IF hits = {} THEN 0 ELSE CHOOSE i \in hits : \A j \in hits : i <= j

Contains(text, pat) == FindFirst(text, pat) # 0

\* text.split(pat, 1)
SplitOnce(text, pat) ==
    LET i == FindFirst(text, pat)
    IN  IF i = 0 THEN <<text>>
        ELSE <<SubSeq(text, 1, i - 1), SubSeq(text, i + Len(pat), Len(text))>>

\* a variant of Placeholder: the name is compared without regard to case
Placeholder_AnyCase(key) == <<"$", "{">> \o MapLower(key) \o <<"}">>

\* f"${{{key}}}"
Placeholder(key) == <<"$", "{">> \o key \o <<"}">>

XmlCompatible(s) == \A i \in 1..Len(s) : s[i] \notin XmlIllegal

(***************************************************************************)
(* format_date                                                             *)
(***************************************************************************)
DigitVal(c) ==
    CASE c = "0" -> 0 [] c = "1" -> 1 [] c = "2" -> 2 [] c = "3" -> 3
      [] c = "4" -> 4 [] c = "5" -> 5 [] c = "6" -> 6 [] c = "7" -> 7
      [] c = "8" -> 8 [] c = "9" -> 9

Num2(s, i) == 10 * DigitVal(s[i]) + DigitVal(s[i + 1])

Num4(s, i) == 100 * Num2(s, i) + Num2(s, i + 2)

\* re.match(r'^\d{4}-\d{2}-\d{2}\s\d{2}:\d{2}:\d{2}$', value); $ also matches
\* just before a final line break
MatchesDatePattern(s) ==
    /\ \/ Len(s) = 19
       \/ Len(s) = 20 /\ s[20] = "\n"
    /\ \A i \in {1, 2, 3, 4, 6, 7, 9, 10, 12, 13, 15, 16, 18, 19} : s[i] \in Digits
    /\ s[5] = "-" /\ s[8] = "-"
    /\ s[11] \in Whitespace
    /\ s[14] = ":" /\ s[17] = ":"

IsLeap(y) == (y % 4 = 0 /\ y % 100 # 0) \/ y % 400 = 0

DaysIn(y, m) ==
    IF m = 2 THEN (IF IsLeap(y) THEN 29 ELSE 28)
    ELSE IF m \in {4, 6, 9, 11} THEN 30 ELSE 31

\* datetime.strptime(value, '%Y-%m-%d %H:%M:%S') returns a datetime
StrptimeOk(s) ==
    /\ Len(s) = 19
    /\ Num4(s, 1) >= 1
    /\ Num2(s, 6) \in 1..12
    /\ Num2(s, 9) \in 1..DaysIn(Num4(s, 1), Num2(s, 6))
    /\ Num2(s, 12) \in 0..23
    /\ Num2(s, 15) \in 0..59
    /\ Num2(s, 18) \in 0..59

format_date(value) ==
    IF MatchesDatePattern(value)
    THEN IF StrptimeOk(value)
         THEN SubSeq(value, 9, 10) \o <<"-">> \o SubSeq(value, 6, 7) \o <<"-">>
                 \o SubSeq(value, 1, 4)
         ELSE value
    ELSE value

(***************************************************************************)
(* Rows and documents.                                                     *)
(***************************************************************************)
\* data_row.index
Index(row) == row.cols

\* data_row[key]
RowGet(row, key) ==
    row.vals[CHOOSE i \in 1..Len(row.cols) : row.cols[i] = key]

NoFile == [missing |-> TRUE, sdts |-> <<>>, runs |-> <<>>]

NoDoc == [sdts |-> <<>>, runs |-> <<>>]

\* the document held by a template file
Content(file) == [sdts |-> file.sdts, runs |-> file.runs]

NoKeys == [k \in {} |-> <<>>]

\* a variant of BuildKeys: the first of two colliding columns is kept
RECURSIVE BuildKeys_FirstWins(_, _, _)
BuildKeys_FirstWins(cols, i, acc) ==
    IF i > Len(cols) THEN acc
    ELSE LET n == normalize_string(cols[i])
         IN  BuildKeys_FirstWins(cols, i + 1,
                 [k \in DOMAIN acc \cup {n} |->
                     IF k \in DOMAIN acc THEN acc[k] ELSE cols[i]])

\* normalized_keys = {}; for key in data_row.index: normalized_keys[normalize_string(key)] = key
RECURSIVE BuildKeys(_, _, _)
BuildKeys(cols, i, acc) ==
    IF i > Len(cols) THEN acc
    ELSE LET n == normalize_string(cols[i])
         IN  BuildKeys(cols, i + 1,
                 [k \in DOMAIN acc \cup {n} |-> IF k = n THEN cols[i] ELSE acc[k]])

\* the runs process_run is called on, in call order: the runs of doc.paragraphs,
\* then those of the paragraphs of the cells of doc.tables
RunsAt(d, where) ==
    SelectSeq([i \in 1..Len(d.runs) |-> i], LAMBDA i : d.runs[i].loc = where)

ScanOrder(d) == RunsAt(d, "body") \o RunsAt(d, "cell")


\* the directories output_path.parent.mkdir(exist_ok=True, parents=True) makes
\* sure of: the parent of path and its ancestors (<<>> is local_dir itself)
ParentDirs(path) ==
    {<<>>} \cup {SubSeq(path, 1, i - 1) : i \in {j \in 1..Len(path) : path[j] = "/"}}

\* a variant of ResolveTag: a tag that is the name of a column, character for
\* character, resolves to that column
ResolveTag_ExactFirst(sdt, nk) ==
    IF sdt.hasTag /\ \E i \in 1..Len(data_row.cols) : data_row.cols[i] = sdt.tag
    THEN <<TRUE, sdt.tag>>
    ELSE IF sdt.hasTag /\ normalize_string(sdt.tag) \in DOMAIN nk
    THEN <<TRUE, nk[normalize_string(sdt.tag)]>>
    ELSE <<FALSE>>

\* the key sdt's tag resolves to: <<TRUE, original_key>>, or <<FALSE>>
ResolveTag(sdt, nk) ==
    IF sdt.hasTag /\ normalize_string(sdt.tag) \in DOMAIN nk
    THEN <<TRUE, nk[normalize_string(sdt.tag)]>>
    ELSE <<FALSE>>

\* value = str(format_date(data_row[original_key]))
FieldValue(row, original_key) == format_date(RowGet(row, original_key))

\* for text_elem in sdt.findall('.//w:t', ns): text_elem.text = value; break
SetFirstText(d, i, value) ==
    [d EXCEPT !.sdts[i].texts[1] = value]

\* parts = run.text.split(placeholder, 1); parts[0] + str(value) + parts[1]
Splice(text, placeholder, value) ==
    LET parts == SplitOnce(text, placeholder)
    IN  IF Len(parts) > 1 THEN parts[1] \o value \o parts[2] ELSE parts[1]

\* a Python value: whether it is a str, and the text str(value)
NoArg == [isStr |-> TRUE, str |-> <<>>]

(***************************************************************************)
(* create_word_from_template                                               *)
(***************************************************************************)
\* the fill returns to its caller
FillReturn(res) ==
    /\ result_path' = res
    /\ pc' = "fill_ret"
    /\ caller' = caller

\* a variant of FillTemplateMissing: the parent directory is made before the
\* template is looked for
FillTemplateMissing_MkdirFirst ==
    /\ pc = "fill"
    /\ templateFile.missing
    /\ localDirs' = localDirs \cup ParentDirs(output_path)
    /\ FillReturn("None")
    /\ UNCHANGED <<data_row, templateFile, output_path,
                   localFiles, outFile, template, doc, normalized_keys, sdtIdx,
                   scanPos, keyIdx, pass1, pass2, lastRepl, fsAtCall>>
    /\ UNCHANGED mainVars
    /\ UNCHANGED pureVars

\* lines 266-269: the template does not exist
FillTemplateMissing ==
    /\ pc = "fill"
    /\ templateFile.missing
    /\ FillReturn("None")
    /\ UNCHANGED <<data_row, templateFile, output_path, localDirs,
                   localFiles, outFile, template, doc, normalized_keys, sdtIdx,
                   scanPos, keyIdx, pass1, pass2, lastRepl, fsAtCall>>
    /\ UNCHANGED mainVars
    /\ UNCHANGED pureVars

\* lines 280-326: make the parent directory, load the document, build the key table
FillLoad ==
    /\ pc = "fill"
    /\ ~templateFile.missing
    /\ localDirs' = localDirs \cup ParentDirs(output_path)
    /\ template' = Content(templateFile)
    /\ doc' = Content(templateFile)
    /\ normalized_keys' = BuildKeys(Index(data_row), 1, NoKeys)
    /\ sdtIdx' = 1
    /\ lastRepl' = [i \in 1..Len(templateFile.runs) |-> 0]
    /\ pc' = "sdt"
    /\ UNCHANGED <<caller, data_row, templateFile, output_path, localFiles,
                   outFile, scanPos, keyIdx, pass1, pass2, fsAtCall, result_path>>
    /\ UNCHANGED mainVars
    /\ UNCHANGED pureVars

\* lines 280-283, 405-407: Document(template_path) raises (not a readable docx)
FillLoadError ==
    /\ pc = "fill"
    /\ ~templateFile.missing
    /\ localDirs' = localDirs \cup ParentDirs(output_path)
    /\ FillReturn("None")
    /\ UNCHANGED <<data_row, templateFile, output_path, localFiles,
                   outFile, template, doc, normalized_keys, sdtIdx, scanPos,
                   keyIdx, pass1, pass2, lastRepl, fsAtCall>>
    /\ UNCHANGED mainVars
    /\ UNCHANGED pureVars

\* the form-field pass is over (normally or by the except of line 365): the
\* placeholder pass starts
StartPlaceholders(how) ==
    /\ pass1' = how
    /\ scanPos' = 1
    /\ keyIdx' = 1
    /\ pc' = "runs"

\* lines 341-364: a content control whose tag resolves and that holds a text
\* element: the first text element is overwritten
FormFieldFill ==
    /\ pc = "sdt"
    /\ sdtIdx <= Len(doc.sdts)
    /\ LET r == ResolveTag(doc.sdts[sdtIdx], normalized_keys)
       IN  /\ r[1]
           /\ doc.sdts[sdtIdx].texts # <<>>
           /\ XmlCompatible(FieldValue(data_row, r[2]))
           /\ doc' = SetFirstText(doc, sdtIdx, FieldValue(data_row, r[2]))
    /\ sdtIdx' = sdtIdx + 1
    /\ UNCHANGED <<pc, caller, data_row, templateFile, output_path, localDirs,
                   localFiles, outFile, template, normalized_keys, scanPos,
                   keyIdx, pass1, pass2, lastRepl, fsAtCall, result_path>>
    /\ UNCHANGED mainVars
    /\ UNCHANGED pureVars

\* a variant of FormFieldSkip: a content control that resolves to no column is
\* emptied
FormFieldSkip_Clear ==
    /\ pc = "sdt"
    /\ sdtIdx <= Len(doc.sdts)
    /\ LET r == ResolveTag(doc.sdts[sdtIdx], normalized_keys)
       IN  ~r[1] \/ doc.sdts[sdtIdx].texts = <<>>
    /\ doc' = IF doc.sdts[sdtIdx].texts = <<>> THEN doc
              ELSE SetFirstText(doc, sdtIdx, <<>>)
    /\ sdtIdx' = sdtIdx + 1
    /\ UNCHANGED <<pc, caller, data_row, templateFile, output_path, localDirs,
                   localFiles, outFile, template, normalized_keys, scanPos,
                   keyIdx, pass1, pass2, lastRepl, fsAtCall, result_path>>
    /\ UNCHANGED mainVars
    /\ UNCHANGED pureVars

\* lines 344, 352, 361: no tag, a tag that is no key of the table, or no text
\* element: nothing is written
FormFieldSkip ==
    /\ pc = "sdt"
    /\ sdtIdx <= Len(doc.sdts)
    /\ LET r == ResolveTag(doc.sdts[sdtIdx], normalized_keys)
       IN  ~r[1] \/ doc.sdts[sdtIdx].texts = <<>>
    /\ sdtIdx' = sdtIdx + 1
    /\ UNCHANGED <<pc, caller, data_row, templateFile, output_path, localDirs,
                   localFiles, outFile, template, doc, normalized_keys, scanPos,
                   keyIdx, pass1, pass2, lastRepl, fsAtCall, result_path>>
    /\ UNCHANGED mainVars
    /\ UNCHANGED pureVars

\* lines 362, 365-366: the assignment to text_elem.text raises (lxml refuses the
\* value); the except around the whole loop ends the pass
FormFieldRaise ==
    /\ pc = "sdt"
    /\ sdtIdx <= Len(doc.sdts)
    /\ LET r == ResolveTag(doc.sdts[sdtIdx], normalized_keys)
       IN  /\ r[1]
           /\ doc.sdts[sdtIdx].texts # <<>>
           /\ ~XmlCompatible(FieldValue(data_row, r[2]))
    /\ StartPlaceholders("aborted")
    /\ UNCHANGED <<caller, data_row, templateFile, output_path, localDirs,
                   localFiles, outFile, template, doc, normalized_keys, sdtIdx,
                   pass2, lastRepl, fsAtCall, result_path>>
    /\ UNCHANGED mainVars
    /\ UNCHANGED pureVars

\* line 341: the loop over the content controls ends
FormFieldsDone ==
    /\ pc = "sdt"
    /\ sdtIdx > Len(doc.sdts)
    /\ StartPlaceholders("ok")
    /\ UNCHANGED <<caller, data_row, templateFile, output_path, localDirs,
                   localFiles, outFile, template, doc, normalized_keys, sdtIdx,
                   pass2, lastRepl, fsAtCall, result_path>>
    /\ UNCHANGED mainVars
    /\ UNCHANGED pureVars

\* the run process_run is working on, and the column of its for loop
CurRun == ScanOrder(doc)[scanPos]

CurKey == Index(data_row)[keyIdx]

InRun ==
    /\ pc = "runs"
    /\ scanPos <= Len(ScanOrder(doc))
    /\ keyIdx <= Len(Index(data_row))

\* the text line 383 assigns to run.text
NewRunText ==
    Splice(doc.runs[CurRun].text, Placeholder(CurKey),
           format_date(RowGet(data_row, CurKey)))

\* a variant of PlaceholderReplace: an if in place of the while, one replacement
\* for each column
PlaceholderReplace_Once ==
    /\ InRun
    /\ Contains(doc.runs[CurRun].text, Placeholder(CurKey))
    /\ XmlCompatible(NewRunText)
    /\ doc' = [doc EXCEPT !.runs[CurRun].text = NewRunText]
    /\ lastRepl' = [lastRepl EXCEPT ![CurRun] = keyIdx]
    /\ IF keyIdx < Len(Index(data_row))
       THEN keyIdx' = keyIdx + 1 /\ scanPos' = scanPos
       ELSE keyIdx' = 1 /\ scanPos' = scanPos + 1
    /\ UNCHANGED <<pc, caller, data_row, templateFile, output_path, localDirs,
                   localFiles, outFile, template, normalized_keys, sdtIdx,
                   pass1, pass2, fsAtCall, result_path>>
    /\ UNCHANGED mainVars
    /\ UNCHANGED pureVars

\* lines 377-383: one iteration of the while loop
PlaceholderReplace ==
    /\ InRun
    /\ Contains(doc.runs[CurRun].text, Placeholder(CurKey))
    /\ XmlCompatible(NewRunText)
    /\ doc' = [doc EXCEPT !.runs[CurRun].text = NewRunText]
    /\ lastRepl' = [lastRepl EXCEPT ![CurRun] = keyIdx]
    /\ UNCHANGED <<pc, caller, data_row, templateFile, output_path, localDirs,
                   localFiles, outFile, template, normalized_keys, sdtIdx,
                   scanPos, keyIdx, pass1, pass2, fsAtCall, result_path>>
    /\ UNCHANGED mainVars
    /\ UNCHANGED pureVars

\* lines 383, 397-398: the assignment to run.text raises; the except around the
\* whole pass ends it. python-docx clears the run before it appends the new text,
\* so the run is left as it was or empty.
PlaceholderRaise ==
    /\ InRun
    /\ Contains(doc.runs[CurRun].text, Placeholder(CurKey))
    /\ ~XmlCompatible(NewRunText)
    /\ \E left \in {doc.runs[CurRun].text, <<>>} :
           doc' = [doc EXCEPT !.runs[CurRun].text = left]
    /\ pass2' = "aborted"
    /\ pc' = "save"
    /\ UNCHANGED <<caller, data_row, templateFile, output_path, localDirs,
                   localFiles, outFile, template, normalized_keys, sdtIdx,
                   scanPos, keyIdx, pass1, lastRepl, fsAtCall, result_path>>
    /\ UNCHANGED mainVars
    /\ UNCHANGED pureVars

\* lines 375, 377: the while condition is false: next column, or next run
PlaceholderNextKey ==
    /\ InRun
    /\ ~Contains(doc.runs[CurRun].text, Placeholder(CurKey))
    /\ IF keyIdx < Len(Index(data_row))
       THEN keyIdx' = keyIdx + 1 /\ scanPos' = scanPos
       ELSE keyIdx' = 1 /\ scanPos' = scanPos + 1
    /\ UNCHANGED <<pc, caller, data_row, templateFile, output_path, localDirs,
                   localFiles, outFile, template, doc, normalized_keys, sdtIdx,
                   pass1, pass2, lastRepl, fsAtCall, result_path>>
    /\ UNCHANGED mainVars
    /\ UNCHANGED pureVars

\* lines 386-396: both loops over the runs end
PlaceholdersDone ==
    /\ pc = "runs"
    /\ scanPos > Len(ScanOrder(doc))
    /\ pass2' = "ok"
    /\ pc' = "save"
    /\ UNCHANGED <<caller, data_row, templateFile, output_path, localDirs,
                   localFiles, outFile, template, doc, normalized_keys, sdtIdx,
                   scanPos, keyIdx, pass1, lastRepl, fsAtCall, result_path>>
    /\ UNCHANGED mainVars
    /\ UNCHANGED pureVars

\* lines 401-403: doc.save(output_path)
FillSave ==
    /\ pc = "save"
    /\ outFile' = doc
    /\ localFiles' = localFiles \cup {output_path}
    /\ FillReturn("path")
    /\ UNCHANGED <<data_row, templateFile, output_path, localDirs,
                   template, doc, normalized_keys, sdtIdx, scanPos, keyIdx,
                   pass1, pass2, lastRepl, fsAtCall>>
    /\ UNCHANGED mainVars
    /\ UNCHANGED pureVars

\* lines 401, 405-407: doc.save raises
FillSaveError ==
    /\ pc = "save"
    /\ FillReturn("None")
    /\ UNCHANGED <<data_row, templateFile, output_path, localDirs,
                   localFiles, outFile, template, doc, normalized_keys, sdtIdx,
                   scanPos, keyIdx, pass1, pass2, lastRepl, fsAtCall>>
    /\ UNCHANGED mainVars
    /\ UNCHANGED pureVars

FillStep ==
    \/ FillTemplateMissing
    \/ FillLoad
    \/ FillLoadError
    \/ FormFieldFill
    \/ FormFieldSkip
    \/ FormFieldRaise
    \/ FormFieldsDone
    \/ PlaceholderReplace
    \/ PlaceholderRaise
    \/ PlaceholderNextKey
    \/ PlaceholdersDone
    \/ FillSave
    \/ FillSaveError

(***************************************************************************)
(* The inputs of the engine: rows and templates.                           *)
(***************************************************************************)
SeqsUpTo(S, n) == UNION {[1..k -> S] : k \in 0..n}

ColNames == {<<"a">>, <<"A">>, <<"b">>}

ADate == <<"2", "0", "2", "4", "-", "0", "3", "-", "0", "5", " ",
           "1", "0", ":", "0", "0", ":", "0", "0">>

Values == {<<>>, <<"x">>, <<"$", "{", "a", "}">>, <<"NUL">>, ADate}

\* one or two columns; the column names of a Series are distinct here
\* (read_excel renames duplicates)
ColLists ==
    {<<c>> : c \in ColNames}
        \cup {cd \in ColNames \X ColNames : cd[1] # cd[2]}

Rows ==
    UNION {{[cols |-> c, vals |-> v] : v \in [1..Len(c) -> Values]} : c \in ColLists}

\* content controls: untagged; tagged "A " with two text elements; tagged "b";
\* tagged "b" without a text element; tagged with no column's name
FieldKinds ==
    {[hasTag |-> FALSE, tag |-> <<>>, texts |-> <<<<"t">>>>],
     [hasTag |-> TRUE, tag |-> <<"A", " ">>, texts |-> <<<<"t">>, <<"s">>>>],
     [hasTag |-> TRUE, tag |-> <<"b">>, texts |-> <<<<"t">>>>],
     [hasTag |-> TRUE, tag |-> <<"b">>, texts |-> <<>>],
     [hasTag |-> TRUE, tag |-> <<"u">>, texts |-> <<<<"t">>>>]}

\* runs: of a paragraph of the body, of a cell of a table of the body, of a table
\* nested in a cell
RunKinds ==
    {[text |-> <<"$", "{", "a", "}", "$", "{", "a", "}">>, loc |-> "body"],
     [text |-> <<"$", "{", "A", "}">>, loc |-> "body"],
     [text |-> <<"z", "$", "{", "b", "}">>, loc |-> "cell"],
     [text |-> <<"$", "{", "u", "}">>, loc |-> "cell"],
     [text |-> <<"$", "{", "b", "}">>, loc |-> "nested"]}

\* the templates with at most MaxMarkers markers (content controls and runs)
Templates ==
    UNION {{[missing |-> FALSE, sdts |-> f, runs |-> r] :
               f \in [1..nf -> FieldKinds], r \in SeqsUpTo(RunKinds, MaxMarkers - nf)} :
              nf \in 0..MaxMarkers}

\* an output path whose parent directory does not exist yet
OutPaths == {<<"d", "/", "o">>}

(***************************************************************************)
(* The engine called on its own, as test_create_word_from_template does.   *)
(***************************************************************************)
InitFill ==
    /\ pc = "fill"
    /\ caller = "test"
    /\ data_row \in Rows
    /\ templateFile \in Templates \cup {NoFile}
    /\ output_path \in OutPaths
    /\ localDirs = {<<>>}
    /\ localFiles = {}
    /\ outFile = NoDoc
    /\ template = NoDoc
    /\ doc = NoDoc
    /\ normalized_keys = NoKeys
    /\ sdtIdx = 1
    /\ scanPos = 1
    /\ keyIdx = 1
    /\ pass1 = "pending"
    /\ pass2 = "pending"
    /\ lastRepl = <<>>
    /\ fsAtCall = [dirs |-> {<<>>}, files |-> {}]
    /\ result_path = "pending"
    /\ sheet = <<>>
    /\ rowIdx = 0
    /\ passNo = 0
    /\ clock = 0
    /\ remote = {}
    /\ word_filename = <<>>
    /\ rowLog = <<>>
    /\ uploadedBefore = <<>>
    /\ cmdLog = <<>>
    /\ mainResult = "pending"
    /\ fn = "none"
    /\ arg = NoArg
    /\ ret = <<>>

NextFill == FillStep

SpecFill == InitFill /\ [][NextFill]_vars

(***************************************************************************)
(* main.py: file names.                                                    *)
(***************************************************************************)
\* 'Entreprise/Commune'
EntrepriseCommune ==
    <<"E", "n", "t", "r", "e", "p", "r", "i", "s", "e", "/",
      "C", "o", "m", "m", "u", "n", "e">>

DiagnosticPrefix == <<"d", "i", "a", "g", "n", "o", "s", "t", "i", "c", "_">>

DocxSuffix == <<".", "d", "o", "c", "x">>

DigitChar(n) ==
    CASE n = 0 -> "0" [] n = 1 -> "1" [] n = 2 -> "2" [] n = 3 -> "3"
      [] n = 4 -> "4" [] n = 5 -> "5" [] n = 6 -> "6" [] n = 7 -> "7"
      [] n = 8 -> "8" [] n = 9 -> "9"

\* str(n) of a natural number
RECURSIVE Decimal(_)
Decimal(n) ==
    IF n < 10 THEN <<DigitChar(n)>> ELSE Append(Decimal(n \div 10), DigitChar(n % 10))

\* datetime.now().strftime('%Y%m%d_%H%M%S') at second t of the clock: the
\* rendering of the second, one text per second
Timestamp(t) == <<"T">> \o Decimal(t)

\* key in row
HasColumn(row, key) == \E i \in 1..Len(row.cols) : row.cols[i] = key

\* value.replace(' ', '_').lower()
SafeName(value) ==
    MapLower([i \in 1..Len(value) |-> IF value[i] = " " THEN "_" ELSE value[i]])

\* lines 71-76: index is the label of the row in df (0 for the first row)
WordFilename(row, index, t) ==
    IF HasColumn(row, EntrepriseCommune) /\ RowGet(row, EntrepriseCommune) # <<>>
    THEN DiagnosticPrefix \o SafeName(RowGet(row, EntrepriseCommune)) \o DocxSuffix
    ELSE DiagnosticPrefix \o Timestamp(t) \o <<"_">> \o Decimal(index) \o DocxSuffix

\* Path(p).name: what follows the last separator
Basename(path) ==
    LET seps == {i \in 1..Len(path) : path[i] = "/"}
    IN  IF seps = {} THEN path
        ELSE SubSeq(path, (CHOOSE i \in seps : \A j \in seps : j <= i) + 1, Len(path))

(***************************************************************************)
(* The inputs of the pipeline: the spreadsheet and the template.           *)
(***************************************************************************)
\* rows: a named one, one whose name holds a path separator and that has no
\* column "a", one with an empty name and a value lxml refuses
PipelineRows ==
    {[cols |-> <<EntrepriseCommune, <<"a">>>>, vals |-> <<<<"A", " ", "b">>, <<"x">>>>],
     [cols |-> <<EntrepriseCommune, <<"b">>>>, vals |-> <<<<"a", "/", "b">>, <<"x">>>>],
     [cols |-> <<EntrepriseCommune, <<"a">>>>, vals |-> <<<<>>, <<"NUL">>>>]}

\* the spreadsheets of at most MaxSheetRows rows, all different
Sheets ==
    {sh \in SeqsUpTo(PipelineRows, MaxSheetRows) :
        \A i, j \in 1..Len(sh) : sh[i] = sh[j] => i = j}

\* the template: a content control tagged "A " and a run "${a}"
PipelineTemplates ==
    {[missing |-> FALSE,
      sdts |-> <<[hasTag |-> TRUE, tag |-> <<"A", " ">>, texts |-> <<<<"t">>>>]>>,
      runs |-> <<[text |-> <<"$", "{", "a", "}">>, loc |-> "body"]>>]}

(***************************************************************************)
(* check_file_exists_on_sharepoint, delete_file_from_sharepoint,           *)
(* upload_file_to_sharepoint.  o gives the outcome of each external        *)
(* command: o.x is TRUE when the command works.                            *)
(***************************************************************************)
\* rclone lsf: True when the command succeeds and lists the file
CheckExists(rem, filename, lsfOk) == lsfOk /\ filename \in rem

Outcomes ==
    [lsf1 : BOOLEAN, lsf2 : BOOLEAN, del : BOOLEAN, tmpcopy : BOOLEAN,
     copy : BOOLEAN, copyto : BOOLEAN, verify : BOOLEAN]

\* lines 435-438: overwrite is True: the existing file is deleted first
\* (delete_file_from_sharepoint checks again before it deletes)
UploadDelete(rem, filename, o) ==
    IF CheckExists(rem, filename, o.lsf1)
    THEN IF CheckExists(rem, filename, o.lsf2)
         THEN [remote |-> IF o.del THEN rem \ {filename} ELSE rem,
               cmds |-> <<"lsf", "lsf", "deletefile">>]
         ELSE [remote |-> rem, cmds |-> <<"lsf", "lsf">>]
    ELSE [remote |-> rem, cmds |-> <<"lsf">>]

\* a variant of UploadTransfer: copyto is run after copy whatever copy returned
UploadTransfer_Both(rem, filename, o) ==
    IF o.copy \/ o.copyto
    THEN [remote |-> rem \cup {filename}, cmds |-> <<"copy", "copyto">>, ok |-> TRUE]
    ELSE [remote |-> rem, cmds |-> <<"copy", "copyto">>, ok |-> FALSE]

\* lines 452-491: rclone copy, and rclone copyto when copy failed
UploadTransfer(rem, filename, o) ==
    IF o.copy
    THEN [remote |-> rem \cup {filename}, cmds |-> <<"copy">>, ok |-> TRUE]
    ELSE IF o.copyto
    THEN [remote |-> rem \cup {filename}, cmds |-> <<"copy", "copyto">>, ok |-> TRUE]
    ELSE [remote |-> rem, cmds |-> <<"copy", "copyto">>, ok |-> FALSE]

\* upload_file_to_sharepoint(local_file_path, remote_name, remote_folder)
Upload(rem, files, path, o) ==
    IF path \notin files
    THEN [remote |-> rem, cmds |-> <<>>, ret |-> FALSE]
    ELSE LET filename == Basename(path)
             d == UploadDelete(rem, filename, o)
         IN  IF ~o.tmpcopy
             THEN [remote |-> d.remote, cmds |-> d.cmds, ret |-> FALSE]
             ELSE LET t == UploadTransfer(d.remote, filename, o)
                  IN  IF t.ok
                      THEN [remote |-> t.remote,
                            cmds |-> d.cmds \o t.cmds \o <<"lsf">>,
                            ret |-> CheckExists(t.remote, filename, o.verify)]
                      ELSE [remote |-> t.remote, cmds |-> d.cmds \o t.cmds,
                            ret |-> FALSE]

(***************************************************************************)
(* The engine called on rows whose columns have the same normalized name.  *)
(***************************************************************************)
\* the columns "a" and "A", in either order; values lxml takes or refuses
CollidingRows ==
    {[cols |-> c, vals |-> v] :
        c \in {<<<<"a">>, <<"A">>>>, <<<<"A">>, <<"a">>>>},
        v \in [1..2 -> {<<>>, <<"x">>, <<"NUL">>}]}

\* content controls tagged with the name of one of the columns, or with the
\* name of none
CollidingFields ==
    {[hasTag |-> TRUE, tag |-> <<"a">>, texts |-> <<<<"t">>>>],
     [hasTag |-> TRUE, tag |-> <<"A">>, texts |-> <<<<"t">>, <<"s">>>>],
     [hasTag |-> TRUE, tag |-> <<"u">>, texts |-> <<<<"t">>>>]}

CollidingRuns == {[text |-> <<"$", "{", "a", "}">>, loc |-> "body"]}

CollidingTemplates ==
    UNION {{[missing |-> FALSE, sdts |-> f, runs |-> r] :
               f \in [1..nf -> CollidingFields],
               r \in SeqsUpTo(CollidingRuns, MaxMarkers - nf)} :
              nf \in 0..MaxMarkers}

InitKeys ==
    /\ pc = "fill"
    /\ caller = "test"
    /\ data_row \in CollidingRows
    /\ templateFile \in CollidingTemplates \cup {NoFile}
    /\ output_path \in OutPaths
    /\ localDirs = {<<>>}
    /\ localFiles = {}
    /\ outFile = NoDoc
    /\ template = NoDoc
    /\ doc = NoDoc
    /\ normalized_keys = NoKeys
    /\ sdtIdx = 1
    /\ scanPos = 1
    /\ keyIdx = 1
    /\ pass1 = "pending"
    /\ pass2 = "pending"
    /\ lastRepl = <<>>
    /\ fsAtCall = [dirs |-> {<<>>}, files |-> {}]
    /\ result_path = "pending"
    /\ sheet = <<>>
    /\ rowIdx = 0
    /\ passNo = 0
    /\ clock = 0
    /\ remote = {}
    /\ word_filename = <<>>
    /\ rowLog = <<>>
    /\ uploadedBefore = <<>>
    /\ cmdLog = <<>>
    /\ mainResult = "pending"
    /\ fn = "none"
    /\ arg = NoArg
    /\ ret = <<>>

NextKeys == FillStep

SpecKeys == InitKeys /\ [][NextKeys]_vars

(***************************************************************************)
(* main                                                                    *)
(***************************************************************************)
NoLog ==
    [checked |-> FALSE, found |-> FALSE, checkFailed |-> FALSE, fill |-> "no",
     pass1 |-> "pending", pass2 |-> "pending", upload |-> "no"]

\* the fill's own variables, as they are when no fill is in progress
FillIdle ==
    /\ outFile' = NoDoc
    /\ doc' = NoDoc
    /\ template' = NoDoc
    /\ normalized_keys' = NoKeys
    /\ sdtIdx' = 1
    /\ scanPos' = 1
    /\ keyIdx' = 1
    /\ pass1' = "pending"
    /\ pass2' = "pending"
    /\ lastRepl' = <<>>
    /\ result_path' = "pending"

\* main returns
MainReturn(res) ==
    /\ mainResult' = res
    /\ pc' = "idle"

\* lines 35-55: clean the local directory (clean_directory sleeps one second),
\* download the spreadsheet and the template; one of the downloads fails
MainDownloadFail ==
    /\ pc = "main"
    /\ clock' = clock + 1
    /\ localFiles' = {}
    /\ localDirs' = {<<>>}
    /\ outFile' = NoDoc
    /\ MainReturn("False")
    /\ UNCHANGED <<caller, data_row, templateFile, output_path, template, doc,
                   normalized_keys, sdtIdx, scanPos, keyIdx, pass1, pass2,
                   lastRepl, fsAtCall, result_path, sheet, rowIdx, passNo,
                   remote, word_filename, rowLog, uploadedBefore, cmdLog>>
    /\ UNCHANGED pureVars

\* lines 35-55: both downloads succeed; the template is downloaded anew
MainDownload ==
    /\ pc = "main"
    /\ clock' = clock + 1
    /\ localFiles' = {}
    /\ localDirs' = {<<>>}
    /\ outFile' = NoDoc
    /\ templateFile' \in PipelineTemplates
    /\ pc' = "read"
    /\ UNCHANGED <<caller, data_row, output_path, template, doc,
                   normalized_keys, sdtIdx, scanPos, keyIdx, pass1, pass2,
                   lastRepl, fsAtCall, result_path, sheet, rowIdx, passNo,
                   remote, word_filename, rowLog, uploadedBefore, cmdLog,
                   mainResult>>
    /\ UNCHANGED pureVars

\* lines 59, 103-105: pd.read_excel raises
MainReadError ==
    /\ pc = "read"
    /\ MainReturn("False")
    /\ UNCHANGED fillVars
    /\ UNCHANGED <<caller, sheet, rowIdx, passNo, clock, remote, word_filename,
                   rowLog, uploadedBefore, cmdLog>>
    /\ UNCHANGED pureVars

\* lines 61-63: the spreadsheet holds no row
MainEmpty ==
    /\ pc = "read"
    /\ sheet = <<>>
    /\ MainReturn("False")
    /\ UNCHANGED fillVars
    /\ UNCHANGED <<caller, sheet, rowIdx, passNo, clock, remote, word_filename,
                   rowLog, uploadedBefore, cmdLog>>
    /\ UNCHANGED pureVars

\* line 66: the loop over the rows starts
MainLoopStart ==
    /\ pc = "read"
    /\ sheet # <<>>
    /\ rowIdx' = 1
    /\ pc' = "row"
    /\ UNCHANGED fillVars
    /\ UNCHANGED <<caller, sheet, passNo, clock, remote, word_filename,
                   rowLog, uploadedBefore, cmdLog, mainResult>>
    /\ UNCHANGED pureVars

\* continue, or the end of the body of the loop: the next row
NextRow(log) ==
    /\ rowLog' = [rowLog EXCEPT ![rowIdx] = log]
    /\ rowIdx' = rowIdx + 1
    /\ pc' = "row"

CurName == WordFilename(sheet[rowIdx], rowIdx - 1, clock)

\* a variant of RowExists: the continue is missing, the row is filled all the same
RowExists_NoContinue ==
    /\ pc = "row"
    /\ rowIdx <= Len(sheet)
    /\ CheckExists(remote, CurName, TRUE)
    /\ rowLog' = [rowLog EXCEPT ![rowIdx] =
           [@ EXCEPT !.checked = TRUE, !.found = TRUE, !.fill = "called"]]
    /\ word_filename' = CurName
    /\ data_row' = sheet[rowIdx]
    /\ output_path' = CurName
    /\ fsAtCall' = [dirs |-> localDirs, files |-> localFiles]
    /\ caller' = "main"
    /\ FillIdle
    /\ pc' = "fill"
    /\ cmdLog' = <<>>
    /\ UNCHANGED <<templateFile, localDirs, localFiles, sheet, rowIdx,
                   passNo, clock, remote, uploadedBefore, mainResult>>
    /\ UNCHANGED pureVars

\* lines 68-81: the file is found on the remote: the row is skipped
RowExists ==
    /\ pc = "row"
    /\ rowIdx <= Len(sheet)
    /\ CheckExists(remote, CurName, TRUE)
    /\ word_filename' = CurName
    /\ NextRow([rowLog[rowIdx] EXCEPT !.checked = TRUE, !.found = TRUE])
    /\ cmdLog' = <<>>
    /\ UNCHANGED fillVars
    /\ UNCHANGED <<caller, sheet, passNo, clock, remote, uploadedBefore,
                   mainResult>>
    /\ UNCHANGED pureVars

\* lines 68-85: the check answers False (the file is not there, or the command
\* failed): create_word_from_template is called
RowFill ==
    /\ pc = "row"
    /\ rowIdx <= Len(sheet)
    /\ \E lsfOk \in BOOLEAN :
           /\ ~CheckExists(remote, CurName, lsfOk)
           /\ lsfOk \/ CurName \in remote
           /\ rowLog' = [rowLog EXCEPT ![rowIdx] =
                  [@ EXCEPT !.checked = TRUE, !.checkFailed = ~lsfOk,
                            !.fill = "called"]]
    /\ word_filename' = CurName
    /\ data_row' = sheet[rowIdx]
    /\ output_path' = CurName
    /\ fsAtCall' = [dirs |-> localDirs, files |-> localFiles]
    /\ caller' = "main"
    /\ FillIdle
    /\ pc' = "fill"
    /\ cmdLog' = <<>>
    /\ UNCHANGED <<templateFile, localDirs, localFiles, sheet, rowIdx,
                   passNo, clock, remote, uploadedBefore, mainResult>>
    /\ UNCHANGED pureVars

\* the row is done: the locals of the fill are gone
RowDoneVars ==
    /\ FillIdle
    /\ UNCHANGED <<caller, data_row, templateFile, output_path, localDirs,
                   localFiles, fsAtCall>>

\* a variant of RowFillFailed: the failure of one row ends the run
RowFillFailed_Abort ==
    /\ pc = "fill_ret"
    /\ caller = "main"
    /\ result_path = "None"
    /\ rowLog' = [rowLog EXCEPT ![rowIdx] =
           [@ EXCEPT !.fill = "None", !.pass1 = pass1, !.pass2 = pass2]]
    /\ MainReturn("False")
    /\ RowDoneVars
    /\ UNCHANGED <<sheet, rowIdx, passNo, clock, remote, word_filename,
                   uploadedBefore, cmdLog>>
    /\ UNCHANGED pureVars

\* lines 87-89: the fill returned None
RowFillFailed ==
    /\ pc = "fill_ret"
    /\ caller = "main"
    /\ result_path = "None"
    /\ NextRow([rowLog[rowIdx] EXCEPT !.fill = "None", !.pass1 = pass1,
                                      !.pass2 = pass2])
    /\ RowDoneVars
    /\ UNCHANGED <<sheet, passNo, clock, remote, word_filename,
                   uploadedBefore, cmdLog, mainResult>>
    /\ UNCHANGED pureVars

\* lines 91-98: the fill returned a path: upload_file_to_sharepoint is called
RowUpload ==
    /\ pc = "fill_ret"
    /\ caller = "main"
    /\ result_path = "path"
    /\ \E u \in {Upload(remote, localFiles, output_path, o) : o \in Outcomes} :
           /\ remote' = u.remote
           /\ cmdLog' = u.cmds
           /\ NextRow([rowLog[rowIdx] EXCEPT
                  !.fill = "path", !.pass1 = pass1, !.pass2 = pass2,
                  !.upload = IF u.ret THEN "True" ELSE "False"])
    /\ RowDoneVars
    /\ UNCHANGED <<sheet, passNo, clock, word_filename, uploadedBefore, mainResult>>
    /\ UNCHANGED pureVars

\* lines 100-101: every row was handled
MainDone ==
    /\ pc = "row"
    /\ rowIdx > Len(sheet)
    /\ MainReturn("True")
    /\ UNCHANGED fillVars
    /\ UNCHANGED <<caller, sheet, rowIdx, passNo, clock, remote, word_filename,
                   rowLog, uploadedBefore, cmdLog>>
    /\ UNCHANGED pureVars

\* a variant of RunPending: the job is started from a timer of its own, while
\* the rows of the run before are still being handled
RunPending_Overlapping ==
    /\ pc = "row"
    /\ passNo < MaxPasses
    /\ passNo' = passNo + 1
    /\ rowLog' = [i \in 1..Len(sheet) |-> NoLog]
    /\ rowIdx' = 0
    /\ mainResult' = "pending"
    /\ cmdLog' = <<>>
    /\ uploadedBefore' = [i \in 1..Len(sheet) |->
           uploadedBefore[i] \/ rowLog[i].upload = "True"]
    /\ pc' = "main"
    /\ UNCHANGED fillVars
    /\ UNCHANGED <<caller, sheet, clock, remote, word_filename>>
    /\ UNCHANGED pureVars

\* lines 116-123: schedule.run_pending() calls main again when the interval has
\* passed
RunPending ==
    /\ pc = "idle"
    /\ passNo < MaxPasses
    /\ passNo' = passNo + 1
    /\ rowLog' = [i \in 1..Len(sheet) |-> NoLog]
    /\ rowIdx' = 0
    /\ mainResult' = "pending"
    /\ cmdLog' = <<>>
    /\ uploadedBefore' = [i \in 1..Len(sheet) |->
           uploadedBefore[i] \/ rowLog[i].upload = "True"]
    /\ pc' = "main"
    /\ UNCHANGED fillVars
    /\ UNCHANGED <<caller, sheet, clock, remote, word_filename>>
    /\ UNCHANGED pureVars

MainStep ==
    \/ MainDownloadFail
    \/ MainDownload
    \/ MainReadError
    \/ MainEmpty
    \/ MainLoopStart
    \/ RowExists
    \/ RowFill
    \/ RowFillFailed
    \/ RowUpload
    \/ MainDone
    \/ RunPending

\* line 111: main is called at once
Init ==
    /\ pc = "main"
    /\ caller = "main"
    /\ sheet \in Sheets
    /\ data_row = [cols |-> <<>>, vals |-> <<>>]
    /\ templateFile = NoFile
    /\ output_path = <<>>
    /\ localDirs = {}
    /\ localFiles = {}
    /\ outFile = NoDoc
    /\ template = NoDoc
    /\ doc = NoDoc
    /\ normalized_keys = NoKeys
    /\ sdtIdx = 1
    /\ scanPos = 1
    /\ keyIdx = 1
    /\ pass1 = "pending"
    /\ pass2 = "pending"
    /\ lastRepl = <<>>
    /\ fsAtCall = [dirs |-> {}, files |-> {}]
    /\ result_path = "pending"
    /\ rowIdx = 0
    /\ passNo = 1
    /\ clock = 0
    /\ remote = {}
    /\ word_filename = <<>>
    /\ rowLog = [i \in 1..Len(sheet) |-> NoLog]
    /\ uploadedBefore = [i \in 1..Len(sheet) |-> FALSE]
    /\ cmdLog = <<>>
    /\ mainResult = "pending"
    /\ fn = "none"
    /\ arg = NoArg
    /\ ret = <<>>

\* in main the template was downloaded just before and is there (line 126 of
\* sharepoint_utils.py), so the fill never finds it missing
FillStepInMain ==
    \/ FillLoad
    \/ FillLoadError
    \/ FormFieldFill
    \/ FormFieldSkip
    \/ FormFieldRaise
    \/ FormFieldsDone
    \/ PlaceholderReplace
    \/ PlaceholderRaise
    \/ PlaceholderNextKey
    \/ PlaceholdersDone
    \/ FillSave
    \/ FillSaveError

Next == MainStep \/ FillStepInMain

Spec == Init /\ [][Next]_vars

(***************************************************************************)
(* normalize_string and format_date called on their own, on values of any  *)
(* type.                                                                   *)
(***************************************************************************)
MaxArgLen == 3

\* lines 289-303: a value that is no str is turned into text and lower-cased,
\* and returned at once
normalize_value(x) ==
    IF ~x.isStr THEN MapLower(x.str) ELSE normalize_string(x.str)

\* lines 306-321: a value that is no str is turned into text first
format_value(x) == format_date(x.str)

\* texts of letters, digits, punctuation, white space and accented letters
ArgChars == {"1", ".", "A", " ", "E_acute"}

ArgTexts == SeqsUpTo(ArgChars, MaxArgLen)

\* texts of the shape of a timestamp, or nearly: years, months, days,
\* separators, times of day, and what follows
DateTexts ==
    {y \o <<"-">> \o m \o <<"-">> \o d \o sep \o t \o tail :
        y \in {<<"2", "0", "2", "4">>, <<"2", "0", "2", "3">>, <<"0", "0", "0", "0">>},
        m \in {<<"0", "2">>, <<"1", "3">>},
        d \in {<<"2", "9">>, <<"3", "1">>},
        sep \in {<<" ">>, <<"\t">>, <<"\n">>, <<"T">>, <<" ", " ">>},
        t \in {<<"1", "0", ":", "0", "0", ":", "0", "0">>,
               <<"2", "4", ":", "0", "0", ":", "0", "0">>},
        tail \in {<<>>, <<"\n">>}}

\* str values, and values of other types (numbers, None, objects) with the
\* same text
Args == [isStr : BOOLEAN, str : ArgTexts \cup DateTexts]

\* normalize_string(arg)
NormalizeStringCall ==
    /\ pc = "call"
    /\ fn' = "normalize_string"
    /\ ret' = normalize_value(arg)
    /\ pc' = "called"
    /\ UNCHANGED <<caller, arg>>
    /\ UNCHANGED fillVars
    /\ UNCHANGED mainVars

\* format_date(arg)
FormatDateCall ==
    /\ pc = "call"
    /\ fn' = "format_date"
    /\ ret' = format_value(arg)
    /\ pc' = "called"
    /\ UNCHANGED <<caller, arg>>
    /\ UNCHANGED fillVars
    /\ UNCHANGED mainVars

InitPure ==
    /\ pc = "call"
    /\ caller = "test"
    /\ fn = "none"
    /\ arg \in Args
    /\ ret = <<>>
    /\ data_row = [cols |-> <<>>, vals |-> <<>>]
    /\ templateFile = NoFile
    /\ output_path = <<>>
    /\ localDirs = {}
    /\ localFiles = {}
    /\ outFile = NoDoc
    /\ template = NoDoc
    /\ doc = NoDoc
    /\ normalized_keys = NoKeys
    /\ sdtIdx = 1
    /\ scanPos = 1
    /\ keyIdx = 1
    /\ pass1 = "pending"
    /\ pass2 = "pending"
    /\ lastRepl = <<>>
    /\ fsAtCall = [dirs |-> {}, files |-> {}]
    /\ result_path = "pending"
    /\ sheet = <<>>
    /\ rowIdx = 0
    /\ passNo = 0
    /\ clock = 0
    /\ remote = {}
    /\ word_filename = <<>>
    /\ rowLog = <<>>
    /\ uploadedBefore = <<>>
    /\ cmdLog = <<>>
    /\ mainResult = "pending"

NextPure == NormalizeStringCall \/ FormatDateCall

SpecPure == InitPure /\ [][NextPure]_vars

(***************************************************************************)
(* upload_file_to_sharepoint called on its own, as                         *)
(* test_upload_file_to_sharepoint does.                                    *)
(***************************************************************************)
\* local paths of the file to upload
UploadPaths == {<<"f">>, <<"d", "/", "f">>}

\* the remote folder holds the file already, or another one, or nothing; the
\* local file is there or not; every outcome of the external commands
UploadArgs ==
    [rem : SUBSET {<<"f">>, <<"g">>}, files : SUBSET UploadPaths,
     path : UploadPaths, o : Outcomes]

\* upload_file_to_sharepoint(arg.path, remote_name, remote_folder)
UploadCall ==
    /\ pc = "call"
    /\ fn' = "upload_file_to_sharepoint"
    /\ ret' = Upload(arg.rem, arg.files, arg.path, arg.o)
    /\ pc' = "called"
    /\ UNCHANGED <<caller, arg>>
    /\ UNCHANGED fillVars
    /\ UNCHANGED mainVars

InitUpload ==
    /\ pc = "call"
    /\ caller = "test"
    /\ fn = "none"
    /\ arg \in UploadArgs
    /\ ret = <<>>
    /\ data_row = [cols |-> <<>>, vals |-> <<>>]
    /\ templateFile = NoFile
    /\ output_path = <<>>
    /\ localDirs = {}
    /\ localFiles = {}
    /\ outFile = NoDoc
    /\ template = NoDoc
    /\ doc = NoDoc
    /\ normalized_keys = NoKeys
    /\ sdtIdx = 1
    /\ scanPos = 1
    /\ keyIdx = 1
    /\ pass1 = "pending"
    /\ pass2 = "pending"
    /\ lastRepl = <<>>
    /\ fsAtCall = [dirs |-> {}, files |-> {}]
    /\ result_path = "pending"
    /\ sheet = <<>>
    /\ rowIdx = 0
    /\ passNo = 0
    /\ clock = 0
    /\ remote = {}
    /\ word_filename = <<>>
    /\ rowLog = <<>>
    /\ uploadedBefore = <<>>
    /\ cmdLog = <<>>
    /\ mainResult = "pending"

NextUpload == UploadCall

SpecUpload == InitUpload /\ [][NextUpload]_vars

(***************************************************************************)
(* Properties of the pipeline (specification Spec).                        *)
(***************************************************************************)
RowsOfRun == 1..Len(rowLog)

\* the fill of the row of the loop is in progress, called by main
FillingForMain ==
    caller = "main" /\ pc \in {"fill", "sdt", "runs", "save", "fill_ret"}

\* C1: in every run of main, for every row, upload_file_to_sharepoint is
\* called only after check_file_exists_on_sharepoint was called for the row's
\* output name in the same iteration and returned False; when it returns True,
\* neither create_word_from_template nor the upload is called for the row.
C1_UploadOnlyAfterNegativeCheck ==
    /\ \A i \in RowsOfRun :
           /\ rowLog[i].upload # "no" => rowLog[i].checked /\ ~rowLog[i].found
           /\ rowLog[i].fill # "no" => rowLog[i].checked /\ ~rowLog[i].found
           /\ rowLog[i].found => rowLog[i].fill = "no" /\ rowLog[i].upload = "no"
    /\ FillingForMain =>
           /\ rowLog[rowIdx].checked
           /\ ~rowLog[rowIdx].found
           /\ word_filename = CurName

\* in one run a row was skipped because its file was found, and another row
\* was uploaded after a negative check
C1_Witness ==
    \E i, j \in RowsOfRun :
        /\ rowLog[i].found /\ rowLog[i].fill = "no" /\ rowLog[i].upload = "no"
        /\ rowLog[j].checked /\ ~rowLog[j].found /\ rowLog[j].upload = "True"

\* C2: no partial document is published: a row's document is saved only
\* after both passes ran to completion, and the upload is called only after a
\* successful save; when a pass did not complete or the save failed there is
\* no upload for the row.
C2_NoPartialPublished ==
    /\ \A i \in RowsOfRun :
           rowLog[i].upload # "no" =>
               /\ rowLog[i].fill = "path"
               /\ rowLog[i].pass1 = "ok"
               /\ rowLog[i].pass2 = "ok"
    /\ FillingForMain /\ pc = "fill_ret" /\ result_path = "path" =>
           pass1 = "ok" /\ pass2 = "ok"

\* C3: over the runs of the pipeline on an unchanged spreadsheet, the remote
\* being changed by the pipeline alone, a row whose upload returned True in an
\* earlier run is not uploaded again in a later run (the existence check of
\* the later run having worked).
C3_PublishedRowsSkipped ==
    \A i \in RowsOfRun :
        uploadedBefore[i] /\ ~rowLog[i].checkFailed => rowLog[i].upload = "no"

RowFailed(i) ==
    \/ rowLog[i].fill = "None"
    \/ rowLog[i].upload = "False"
    \/ rowLog[i].checkFailed

\* C4: a failure of one row (the fill returns None, the upload returns
\* False, or the existence check fails) does not stop the run: every later
\* row of the spreadsheet reaches its own existence check, and main returns
\* True.
C4_RowFailureDoesNotStopRun ==
    \A i \in RowsOfRun :
        RowFailed(i) =>
            /\ pc = "row" => rowIdx > i
            /\ pc = "idle" =>
                   /\ mainResult = "True"
                   /\ \A j \in RowsOfRun : j > i => rowLog[j].checked

\* a run ended in which the fill of the first row returned None and in which
\* the second row was checked all the same
C4_Witness ==
    /\ pc = "idle"
    /\ Len(rowLog) >= 2
    /\ rowLog[1].fill = "None"
    /\ rowLog[2].checked
    /\ mainResult = "True"

\* a run of main is in flight
InFlight == pc # "idle"

\* C14: runs of main never overlap: main runs once at start and is started
\* again by the scheduler only; a run starts only when the run before it has
\* returned, so at most one run is in flight at any moment, however long a
\* run takes.
C14_RunsNeverOverlap ==
    [][/\ passNo' # passNo =>
              /\ ~InFlight
              /\ mainResult # "pending"
              /\ passNo' = passNo + 1
              /\ pc' = "main"
       /\ ~InFlight /\ InFlight' => passNo' = passNo + 1
       /\ InFlight /\ InFlight' => passNo' = passNo /\ mainResult' = "pending"]_vars

\* the scheduler started a second run, after the first returned, and it is
\* handling its rows
C14_Witness ==
    /\ passNo = 2
    /\ pc = "row"
    /\ rowIdx >= 1
    /\ mainResult = "pending"
    /\ clock >= 2

\* C18: in every iteration of main the name asked for on the remote is the
\* name under which the upload stores the document, whatever the value of
\* 'Entreprise/Commune' (a value holding '/' included); so, the remote being
\* changed by the pipeline alone, the upload never finds the file there and
\* never issues a delete.
C18_QueriedNameIsStoredName ==
    /\ FillingForMain => Basename(output_path) = word_filename
    /\ \A i \in DOMAIN cmdLog : cmdLog[i] # "deletefile"
    /\ Len(cmdLog) >= 2 => ~(cmdLog[1] = "lsf" /\ cmdLog[2] = "lsf")

(***************************************************************************)
(* Properties of create_word_from_template (specification SpecFill).       *)
(***************************************************************************)
\* the literal text ${n}
Token(n) == <<"$", "{">> \o n \o <<"}">>

Cols == Index(data_row)

\* the columns whose normalized name is the normalized form of the tag t
Matches(t) ==
    {k \in 1..Len(Cols) : normalize_string(Cols[k]) = normalize_string(t)}

Resolves(f) == f.hasTag /\ Matches(f.tag) # {}

Last(S) == CHOOSE k \in S : \A j \in S : j <= k

\* the formatted value of the k-th column of the row
Formatted(k) == format_date(data_row.vals[k])

\* a content control of the template, as the form-field pass leaves it
ExpectedField(f) ==
    IF Resolves(f) /\ f.texts # <<>>
    THEN [f EXCEPT !.texts[1] = Formatted(Last(Matches(f.tag)))]
    ELSE f

\* the run of the p-th call of process_run
Scanned(p) == ScanOrder(doc)[p]

\* the runs process_run has returned from
Processed ==
    {Scanned(p) : p \in {q \in 1..Len(ScanOrder(doc)) : q < scanPos}}

NoDollar(v) == \A i \in 1..Len(v) : v[i] # "$"

\* while placeholder in text: text = parts[0] + value + parts[1]
RECURSIVE ReplaceLoop(_, _, _)
ReplaceLoop(text, placeholder, value) ==
    IF Contains(text, placeholder)
    THEN ReplaceLoop(Splice(text, placeholder, value), placeholder, value)
    ELSE text

\* what process_run makes of a text when no assignment raises, columns k.. to go
RECURSIVE ProcessRun(_, _)
ProcessRun(text, k) ==
    IF k > Len(Cols) THEN text
    ELSE ProcessRun(ReplaceLoop(text, Token(Cols[k]), Formatted(k)), k + 1)

\* C5: within a pass a failure concerns one marker only: when handling one
\* content control (form-field pass) or one run (placeholder pass) raises,
\* the other markers of the pass are handled all the same, and are filled as
\* they are without the failure.
C5_BestEffortPerMarker ==
    /\ pass1 # "pending" =>
           \A i \in DOMAIN template.sdts :
               LET e == ExpectedField(template.sdts[i])
               IN  (\A t \in DOMAIN e.texts : XmlCompatible(e.texts[t])) =>
                       doc.sdts[i] = e
    /\ pass2 # "pending" /\ (\A k \in DOMAIN Cols : NoDollar(Formatted(k))) =>
           \A p \in DOMAIN ScanOrder(doc) :
               LET e == ProcessRun(template.runs[Scanned(p)].text, 1)
               IN  XmlCompatible(e) => doc.runs[Scanned(p)].text = e

\* C6: when the template does not exist, create_word_from_template returns
\* None without raising and leaves the file system as it was: no output file,
\* no parent directory of the output path.
C6_MissingTemplate ==
    templateFile.missing /\ caller = "test" =>
        /\ pc \in {"fill", "fill_ret"}
        /\ localDirs = fsAtCall.dirs
        /\ localFiles = fsAtCall.files
        /\ outFile = NoDoc
        /\ pc = "fill_ret" => result_path = "None"

\* the call returned for a template that is not there, the parent directory of
\* the output path not existing
C6_Witness ==
    /\ pc = "fill_ret"
    /\ templateFile.missing
    /\ result_path = "None"
    /\ ParentDirs(output_path) \ localDirs # {}

\* C7 (as stated): when the placeholder pass completes, no scanned run holds
\* the token ${c} of any column c of the row, whatever the values, values that
\* hold the token of another column included.
C7_NoTokenOfAnyColumn ==
    pass2 = "ok" =>
        \A p \in DOMAIN ScanOrder(doc) : \A k \in DOMAIN Cols :
            ~Contains(doc.runs[Scanned(p)].text, Token(Cols[k]))

\* C7 (amended): a run process_run has returned from holds no token ${c} of
\* the column c of the last replacement made in it nor of any later column of
\* the row (of any column when nothing was replaced): the columns are taken
\* once, in row order, and every occurrence of the token of the column at
\* hand is replaced, repeated ones included; a token of an earlier column
\* that a replaced value brings in stays.
C7_NoTokenOfLaterColumns ==
    \A r \in Processed : \A k \in DOMAIN Cols :
        k >= lastRepl[r] => ~Contains(doc.runs[r].text, Token(Cols[k]))

\* the pass completed on a run that held the token of a column twice: both
\* are replaced
C7_Witness ==
    /\ pass2 = "ok"
    /\ \E r \in Processed :
           /\ template.runs[r].text = Token(<<"a">>) \o Token(<<"a">>)
           /\ lastRepl[r] > 0
           /\ doc.runs[r].text = <<"x", "x">>

\* C8: a token ${n} of a run is replaced only when the row has a column
\* whose name is n character for character: a run that holds the token of no
\* column keeps its text, whatever columns have the same normalized name as n;
\* and a run that is the token of a column becomes the formatted value of it.
C8_PlaceholderBindingExact ==
    \A r \in DOMAIN doc.runs :
        /\ (\A k \in DOMAIN Cols :
                ~Contains(template.runs[r].text, Token(Cols[k]))) =>
               doc.runs[r].text = template.runs[r].text
        /\ \A k \in DOMAIN Cols :
               /\ r \in Processed
               /\ template.runs[r].text = Token(Cols[k])
               /\ NoDollar(Formatted(k))
               => doc.runs[r].text = Formatted(k)

\* the pass completed on a run ${A} for a row whose only column is "a": the
\* names have the same normalized form and the run is as it was
C8_Witness ==
    /\ pass2 = "ok"
    /\ Cols = <<<<"a">>>>
    /\ \E r \in Processed :
           /\ template.runs[r].text = Token(<<"A">>)
           /\ normalize_string(<<"A">>) = normalize_string(Cols[1])
           /\ doc.runs[r].text = Token(<<"A">>)

\* C9 (as stated): for every content control with a tag t and every column c
\* of the row with normalize(t) = normalize(c), the form-field pass sets the
\* first text element of the control to format(row[c]) and leaves its other
\* text elements as they were.
C9_AnyMatchingColumn ==
    pass1 = "ok" =>
        \A i \in DOMAIN template.sdts :
            LET f == template.sdts[i]
            IN  f.hasTag /\ f.texts # <<>> =>
                    \A k \in Matches(f.tag) :
                        doc.sdts[i] = [f EXCEPT !.texts[1] = Formatted(k)]

\* C9 (amended): every content control the form-field pass has handled, whose
\* tag has the normalized form of the name of a column and that holds a text
\* element, has its first text element set to format(row[c]), c being the
\* last column of the row with that normalized name, its other text elements
\* being as they were; controls resolving to the same column get the same
\* value.
C9_LastMatchingColumn ==
    \A i \in DOMAIN doc.sdts :
        i < sdtIdx => doc.sdts[i] = ExpectedField(template.sdts[i])

\* the pass completed on a control tagged "A " with two text elements, for a
\* row with the columns "a" and "A", the second holding a date: the first text
\* element is the formatted date, the second is as it was
C9_Witness ==
    /\ pass1 = "ok"
    /\ Len(Cols) = 2
    /\ data_row.vals[2] = ADate
    /\ data_row.vals[1] # ADate
    /\ \E i \in DOMAIN doc.sdts :
           /\ i < sdtIdx
           /\ Matches(template.sdts[i].tag) = {1, 2}
           /\ Len(template.sdts[i].texts) = 2
           /\ doc.sdts[i].texts[1] =
                  <<"0", "5", "-", "0", "3", "-", "2", "0", "2", "4">>
           /\ doc.sdts[i].texts[2] = template.sdts[i].texts[2]

\* the names a token of the templates can hold
TokenNames == {<<"a">>, <<"A">>, <<"b">>, <<"u">>}

ColSet == {Cols[k] : k \in DOMAIN Cols}

\* the run whose assignment raised
RaisedIn(r) == pass2 = "aborted" /\ r = Scanned(scanPos)

C13_EveryRunReached ==
    pass2 = "ok" /\ (\A k \in DOMAIN Cols : NoDollar(Formatted(k))) =>
        \A r \in DOMAIN doc.runs :
            doc.runs[r].text = ProcessRun(template.runs[r].text, 1)

\* C16: the while loop of process_run ends for every run and every row, a
\* value that holds its own token ${column} or is empty included: no
\* iteration leaves the run with the text it had, the token still in it, from
\* where the loop would go on for ever and the fill never reach the save.
C16_ReplaceLoopEnds ==
    InRun /\ Contains(doc.runs[CurRun].text, Token(CurKey)) =>
        Splice(doc.runs[CurRun].text, Token(CurKey), Formatted(keyIdx))
            # doc.runs[CurRun].text

(***************************************************************************)
(* Properties of the key table (specification SpecKeys).                   *)
(***************************************************************************)
NormalizedNames == {normalize_string(Cols[k]) : k \in DOMAIN Cols}

\* the columns of the row whose normalized name is n
Colliding(n) == {k \in DOMAIN Cols : normalize_string(Cols[k]) = n}

\* C17: the key table is built once for a fill, from the columns of the row
\* in their order, and maps a key that several columns normalize to to the
\* last of them: a content control whose tag normalizes to that key gets the
\* value of the last of these columns, also when its tag is, character for
\* character, the name of an earlier one; the collision raises nothing (the
\* form-field pass ends early only on a value lxml refuses).
C17_LastCollidingColumnWins ==
    /\ pc \in {"sdt", "runs", "save"} =>
           /\ DOMAIN normalized_keys = NormalizedNames
           /\ \A n \in NormalizedNames :
                  normalized_keys[n] = Cols[Last(Colliding(n))]
    /\ \A i \in DOMAIN doc.sdts :
           LET f == template.sdts[i]
               c == Colliding(normalize_string(f.tag))
           IN  i < sdtIdx /\ f.hasTag /\ f.texts # <<>> /\ c # {} =>
                   /\ doc.sdts[i].texts[1] = Formatted(Last(c))
                   /\ \A t \in 2..Len(f.texts) : doc.sdts[i].texts[t] = f.texts[t]
    /\ pass1 = "aborted" =>
           LET f == template.sdts[sdtIdx]
           IN  ~XmlCompatible(Formatted(Last(Colliding(normalize_string(f.tag)))))

\* the form-field pass completed for the columns "a" then "A", with different
\* values, on a content control tagged "a": its text is the value of "A"
C17_Witness ==
    /\ pass1 = "ok"
    /\ Cols = <<<<"a">>, <<"A">>>>
    /\ Formatted(1) # Formatted(2)
    /\ \E i \in DOMAIN doc.sdts :
           /\ i < sdtIdx
           /\ template.sdts[i].tag = Cols[1]
           /\ doc.sdts[i].texts[1] = Formatted(2)

(***************************************************************************)
(* Properties of normalize_string and format_date (specification SpecPure).*)
(***************************************************************************)
Returned(f) == pc = "called" /\ fn = f

\* the steps on a text, one after the other: accents off, lower case, every
\* punctuation character to a space, white space collapsed and trimmed
NormalizeSteps(text) ==
    JoinSplit(PunctToSpace(MapLower(FlatMap(text, 1))), 1, <<>>)

\* C11: normalize_string applies the same steps to every argument, one that
\* is no str being turned into text first: normalize(x) is what the steps
\* make of str(x), so normalize(x) = normalize(str(x)).
C11_NormalizeSameSteps ==
    Returned("normalize_string") =>
        /\ ret = NormalizeSteps(arg.str)
        /\ ret = normalize_value([isStr |-> TRUE, str |-> arg.str])

\* four digits, '-', two digits, '-', two digits, one space, two digits, ':',
\* two digits, ':', two digits, and nothing else
ExactShape(s) ==
    /\ Len(s) = 19
    /\ \A i \in {1, 2, 3, 4, 6, 7, 9, 10, 12, 13, 15, 16, 18, 19} : s[i] \in Digits
    /\ s[5] = "-" /\ s[8] = "-"
    /\ s[11] = " "
    /\ s[14] = ":" /\ s[17] = ":"

\* a text of that shape that names a moment of the calendar
ValidTimestamp(s) ==
    /\ Num4(s, 1) >= 1
    /\ Num2(s, 6) \in 1..12
    /\ Num2(s, 9) \in 1..DaysIn(Num4(s, 1), Num2(s, 6))
    /\ Num2(s, 12) \in 0..23
    /\ Num2(s, 15) \in 0..59
    /\ Num2(s, 18) \in 0..59

\* C12: format_date returns DD-MM-YYYY for a text that has exactly the shape
\* YYYY-MM-DD HH:MM:SS (one space) and names a valid timestamp, and returns
\* its argument unchanged for a text of that shape that names no valid
\* timestamp and for every text that has not exactly that shape.
C12_FormatDateExactShape ==
    Returned("format_date") =>
        ret = IF ExactShape(arg.str) /\ ValidTimestamp(arg.str)
              THEN SubSeq(arg.str, 9, 10) \o <<"-">> \o SubSeq(arg.str, 6, 7)
                       \o <<"-">> \o SubSeq(arg.str, 1, 4)
              ELSE arg.str

(***************************************************************************)
(* Properties of upload_file_to_sharepoint (specification SpecUpload).     *)
(***************************************************************************)
\* the positions of command c among the commands the call issued
Issued(c) == {i \in DOMAIN ret.cmds : ret.cmds[i] = c}

Transfers == Issued("copy") \cup Issued("copyto")

UploadName == Basename(arg.path)

\* True is returned only after a transfer command that worked and a check,
\* made after it, that reported the file
TrueOnlyAfterTransferAndCheck ==
    ret.ret =>
        /\ arg.o.copy \/ arg.o.copyto
        /\ arg.o.verify
        /\ UploadName \in ret.remote
        /\ ret.cmds # <<>> /\ ret.cmds[Len(ret.cmds)] = "lsf"
        /\ \E i \in Transfers : i < Len(ret.cmds)

\* copyto is run only after copy, and only when copy failed
CopytoOnlyAfterFailedCopy ==
    \A i \in Issued("copyto") :
        /\ ~arg.o.copy
        /\ i > 1 /\ ret.cmds[i - 1] = "copy"

\* no local file: False, and no remote command
NoLocalFileNoCommand ==
    arg.path \notin arg.files =>
        ~ret.ret /\ ret.cmds = <<>> /\ ret.remote = arg.rem

\* C15 (as stated): upload_file_to_sharepoint returns True only if copy or
\* copyto worked and the check made after the transfer reported the file;
\* copyto is tried only after copy failed; without the local file it returns
\* False and issues no remote command; and when the file is already on the
\* remote (overwrite being set) the delete is issued before any transfer.
C15_DeleteWheneverPresent ==
    Returned("upload_file_to_sharepoint") =>
        /\ TrueOnlyAfterTransferAndCheck
        /\ CopytoOnlyAfterFailedCopy
        /\ NoLocalFileNoCommand
        /\ UploadName \in arg.rem /\ arg.path \in arg.files =>
               /\ Issued("deletefile") # {}
               /\ \A d \in Issued("deletefile") : \A t \in Transfers : d < t

\* C15 (amended): the same, the delete being issued, before any transfer,
\* exactly when the existence check of the upload and the one
\* delete_file_from_sharepoint makes first both report the file; when the
\* file is there and one of the two checks fails, nothing is deleted and the
\* transfer goes on.
C15_DeleteWhenReportedPresent ==
    Returned("upload_file_to_sharepoint") =>
        /\ TrueOnlyAfterTransferAndCheck
        /\ CopytoOnlyAfterFailedCopy
        /\ NoLocalFileNoCommand
        /\ Issued("deletefile") # {} <=>
               /\ arg.path \in arg.files
               /\ UploadName \in arg.rem
               /\ arg.o.lsf1 /\ arg.o.lsf2
        /\ \A d \in Issued("deletefile") : \A t \in Transfers : d < t

\* the call returned True after it deleted the file that was there, copy
\* failed and copyto worked
C15_Witness ==
    /\ Returned("upload_file_to_sharepoint")
    /\ ret.ret
    /\ UploadName \in arg.rem
    /\ Issued("deletefile") # {}
    /\ Issued("copyto") # {}

====
